---- MODULE Spec2Model ----
(***************************************************************************)
(* Camera control subsystem of PyParticleVis: Transform (transform.py),    *)
(* Camera and CameraInputHandler (camera.py).                              *)
(*                                                                         *)
(* Numbers.  The source computes in floating point; the model computes in  *)
(* fixed point, exactly wherever the values below are used:                *)
(*   lengths        1 model unit = 1/8000 of a source length unit          *)
(*   angles         1 model unit = 0.005 rad (= fpsRotationSpeed)          *)
(*   time           1 model unit = 1/16 s                                  *)
(*   arguments of rotate/move/pan/zoom: 1 model unit = 1/16                *)
(*   blend factors  movement: halves, rotation: thousandths                *)
(*   movementSpeedMod: 1 model unit = 1/64                                 *)
(* NaN (the result of normalize(0) in Transform.lookAt) is a value of its  *)
(* own for vectors and quaternions and propagates as IEEE NaN does.        *)
(*                                                                         *)
(* Orientations.  With worldUp = (0,1,0) every orientation the camera      *)
(* produces is yaw about world Y followed by pitch about local X, so an    *)
(* orientation is the pair <<yaw, pitch>> of angles.  A vector is rotated  *)
(* exactly when both angles are whole quarter turns; the model takes an    *)
(* operation only when every rotation in it is of that kind (OnGrid).     *)
(***************************************************************************)
EXTENDS Integers, Sequences, FiniteSets, TLC

VARIABLES cam, keyMap, keyDown, prevMousePos, canvas, last, steps

vars == <<cam, keyMap, keyDown, prevMousePos, canvas, last, steps>>

(***************************************************************************)
(* Bounds of the model.                                                    *)
(***************************************************************************)
\* number of operations (calls, events, frames) in a run
MaxSteps == 3
\* the speeds are changed only while |zoomSpeed| is at most this (length units per second)
MaxSpeed == 100000

(***************************************************************************)
(* Program constants (camera.py, Camera.__init__).                         *)
(***************************************************************************)
fpsRotationSpeed == 1      \* 0.005 rad per unit
tbRotationSpeed == 3       \* 0.015 rad per unit
moveSpeedInit == 1000      \* 0.125
panSpeedInit == 48         \* 0.006
zoomSpeedInit == 2000      \* 0.25
movementSpeedModInit == 64 \* 1.0

\* pi/2 in angle units of 0.005 rad
QuarterTurn == 314
FullTurn == 4 * QuarterTurn

\* frame times (1/16 s): 0, 1/16 s, 1 s, 16 s
DtSet == {0, 1, 16, 256}

(***************************************************************************)
(* glm: vectors, quaternions, mix, slerp, pow.                             *)
(***************************************************************************)
NaNVec == <<>>
NaNQuat == <<>>
ZeroVec == <<0, 0, 0>>

VAdd(a, b) ==
  IF a = NaNVec \/ b = NaNVec THEN NaNVec
  ELSE <<a[1] + b[1], a[2] + b[2], a[3] + b[3]>>

VSub(a, b) ==
  IF a = NaNVec \/ b = NaNVec THEN NaNVec
  ELSE <<a[1] - b[1], a[2] - b[2], a[3] - b[3]>>

VScale(a, s) ==
  IF a = NaNVec THEN NaNVec ELSE <<a[1] * s, a[2] * s, a[3] * s>>

Abs(n) == IF n < 0 THEN -n ELSE n

\* a vector along one horizontal axis (or zero): the directions the model looks along
AxisAligned(v) ==
  /\ v # NaNVec
  /\ v[2] = 0
  /\ v[1] = 0 \/ v[3] = 0

\* glm.length, for the vectors AxisAligned admits
Length(v) == Abs(v[1]) + Abs(v[3])

\* rotation about X by k quarter turns
RotX(k, v) ==
  CASE k % 4 = 0 -> v
    [] k % 4 = 1 -> <<v[1], -v[3], v[2]>>
    [] k % 4 = 2 -> <<v[1], -v[2], -v[3]>>
    [] k % 4 = 3 -> <<v[1], v[3], -v[2]>>

\* rotation about Y (worldUp) by k quarter turns
RotY(k, v) ==
  CASE k % 4 = 0 -> v
    [] k % 4 = 1 -> <<v[3], v[2], -v[1]>>
    [] k % 4 = 2 -> <<-v[1], v[2], -v[3]>>
    [] k % 4 = 3 -> <<-v[3], v[2], v[1]>>

OnGrid(q) ==
  q # NaNQuat => q[1] % QuarterTurn = 0 /\ q[2] % QuarterTurn = 0

\* the rotations the model computes: by whole quarter turns, or of the zero vector
RotateDefined(q, v) ==
  q = NaNQuat \/ v = NaNVec \/ v = ZeroVec \/ OnGrid(q)

\* quaternion * vec3
Rotate(q, v) ==
  IF q = NaNQuat \/ v = NaNVec THEN NaNVec
  ELSE IF v = ZeroVec THEN ZeroVec
  ELSE RotY(q[1] \div QuarterTurn, RotX(q[2] \div QuarterTurn, v))

\* a rotation about worldUp only, by any angle
YawOnly(q) == q # NaNQuat /\ q[2] = 0

\* 1000 * sin and 1000 * cos of r angle units, 0 <= r < QuarterTurn, by their series
SinQ(r) ==
  LET x == 5 * r
      x2 == (x * x) \div 1000
      i3 == 1000 - x2 \div 42
      i2 == 1000 - (x2 * i3) \div 20000
      i1 == 1000 - (x2 * i2) \div 6000
  IN (x * i1) \div 1000

CosQ(r) ==
  LET x == 5 * r
      x2 == (x * x) \div 1000
      j3 == 1000 - x2 \div 30
      j2 == 1000 - (x2 * j3) \div 12000
  IN 1000 - (x2 * j2) \div 2000

\* 1000 * sin(theta), 1000 * cos(theta); exact on the quarter turns
Sin1000(theta) ==
  LET k == (theta % FullTurn) \div QuarterTurn
      r == theta % QuarterTurn
  IN CASE k = 0 -> SinQ(r) [] k = 1 -> CosQ(r) [] k = 2 -> -SinQ(r) [] k = 3 -> -CosQ(r)

Cos1000(theta) ==
  LET k == (theta % FullTurn) \div QuarterTurn
      r == theta % QuarterTurn
  IN CASE k = 0 -> CosQ(r) [] k = 1 -> -SinQ(r) [] k = 2 -> -CosQ(r) [] k = 3 -> SinQ(r)

\* the forward vectors the model computes: on the grid, or of a rotation about worldUp
ForwardDefined(q, distance) == q = NaNQuat \/ OnGrid(q) \/ YawOnly(q)

\* orientation * vec3(0, 0, -1) * distance (rounded to the length unit off the grid)
Forward(q, distance) ==
  IF q = NaNQuat \/ OnGrid(q) THEN VScale(Rotate(q, <<0, 0, -1>>), distance)
  ELSE <<(-distance * Sin1000(q[1])) \div 1000, 0, (-distance * Cos1000(q[1])) \div 1000>>

\* normalize(angleAxis(rx, worldUp) * q * angleAxis(ry, vec3(1,0,0)))
RotateYawPitch(q, rx, ry) ==
  IF q = NaNQuat THEN NaNQuat
  ELSE <<(q[1] + rx) % FullTurn, (q[2] + ry) % FullTurn>>

\* glm.pow(deltaTime, movementSmoothing), movementSmoothing = 0.25: in halves
PowMovement(deltaTime) == CHOOSE r \in 0..4 : r * r * r * r = deltaTime

\* glm.pow(deltaTime, rotationSmoothing), rotationSmoothing = 0.3: in thousandths
PowRotation(deltaTime) ==
  CASE deltaTime = 0 -> 0
    [] deltaTime = 1 -> 435
    [] deltaTime = 16 -> 1000
    [] deltaTime = 256 -> 2297

\* glm.mix(x, y, a) = x * (1 - a) + y * a, a in halves
Mix(x, y, a) == (x * (2 - a) + y * a) \div 2

VMix(x, y, a) ==
  IF x = NaNVec \/ y = NaNVec THEN NaNVec
  ELSE <<Mix(x[1], y[1], a), Mix(x[2], y[2], a), Mix(x[3], y[3], a)>>

\* the angle from yaw a to yaw b along the shorter arc, in (-FullTurn/2, FullTurn/2]
ShortArc(a, b) ==
  LET d == (b - a) % FullTurn IN IF 2 * d > FullTurn THEN d - FullTurn ELSE d

\* the slerps the model computes: equal ends, a factor of 0 or 1, or between two
\* rotations about worldUp that are not opposite
SlerpOnGrid(x, y, t) ==
  \/ x = NaNQuat \/ y = NaNQuat \/ x = y \/ t = 0 \/ t = 1000
  \/ YawOnly(x) /\ YawOnly(y) /\ 2 * ShortArc(x[1], y[1]) # FullTurn

\* glm.slerp(x, y, t), t in thousandths
Slerp(x, y, t) ==
  IF x = NaNQuat \/ y = NaNQuat THEN NaNQuat
  ELSE IF x = y \/ t = 0 THEN x
  ELSE IF t = 1000 THEN y
  ELSE <<(x[1] + (ShortArc(x[1], y[1]) * t) \div 1000) % FullTurn, 0>>

(***************************************************************************)
(* transform.py                                                            *)
(***************************************************************************)
\* the directions lookAt is modelled for: zero, or along a horizontal axis
LookAtDefined(position, target) ==
  position # NaNVec /\ AxisAligned(VSub(target, position))

\* Transform.lookAt: quatLookAt(normalize(target - position), up)
lookAt(position, target) ==
  LET d == VSub(target, position) IN
  CASE d[1] = 0 /\ d[3] = 0 -> NaNQuat
    [] d[3] < 0 -> <<0, 0>>
    [] d[1] < 0 -> <<QuarterTurn, 0>>
    [] d[3] > 0 -> <<2 * QuarterTurn, 0>>
    [] d[1] > 0 -> <<3 * QuarterTurn, 0>>

\* Transform.mat4(): a function of position and orientation (scale is never written)
mat4(position, orientation) ==
  [position |-> position, orientation |-> orientation]

(***************************************************************************)
(* camera.py: class Camera.  A camera is a record of the object's fields.  *)
(* The two Transform positions are references to glm.vec3 objects: vecObj  *)
(* is the store of those objects, desiredPosRef and currentPosRef say      *)
(* which object each Transform's position attribute is bound to.  "+="     *)
(* on a glm.vec3 changes the object in place; "=" binds the attribute to   *)
(* another object.  Quaternions and floats are only ever rebound.          *)
(***************************************************************************)
ObjIds == {1, 2}

\* the objects no attribute is bound to are dropped (their slot is zeroed)
Collect(h, live) == [i \in ObjIds |-> IF i \in live THEN h[i] ELSE ZeroVec]

\* an object id for a new glm.vec3, given the ids that stay bound
FreshRef(live) == CHOOSE i \in ObjIds : i \notin live /\ \A j \in ObjIds \ live : i <= j

desiredPosition(c) == c.vecObj[c.desiredPosRef]
currentPosition(c) == c.vecObj[c.currentPosRef]

\* "position += delta" on the object ref is bound to
AddInPlace(h, ref, delta) == [h EXCEPT ![ref] = VAdd(@, delta)]

\* a setPosition that, when interpolating, overwrites the vector desired.position is bound to
setPosition_inPlace(c, position, interpolate) ==
  IF interpolate
  THEN [c EXCEPT !.vecObj[c.desiredPosRef] = position]
  ELSE LET r == FreshRef({}) IN
       [c EXCEPT !.desiredPosRef = r,
                 !.currentPosRef = r,
                 !.vecObj = [Collect(c.vecObj, {}) EXCEPT ![r] = position]]

\* Camera.setPosition
setPosition(c, position, interpolate) ==
  IF interpolate
  THEN LET r == FreshRef({c.currentPosRef}) IN
       [c EXCEPT !.desiredPosRef = r,
                 !.vecObj = [Collect(c.vecObj, {c.currentPosRef}) EXCEPT ![r] = position]]
  ELSE LET r == FreshRef({}) IN
       [c EXCEPT !.desiredPosRef = r,
                 !.currentPosRef = r,
                 !.vecObj = [Collect(c.vecObj, {}) EXCEPT ![r] = position]]

setTargetDefined(c, target) == LookAtDefined(desiredPosition(c), target)

\* Camera.setTarget
setTarget(c, target, interpolate) ==
  LET o == lookAt(desiredPosition(c), target)
      d == Length(VSub(target, desiredPosition(c)))
  IN IF interpolate
     THEN [c EXCEPT !.desiredOrientation = o, !.desiredTargetDistance = d]
     ELSE [c EXCEPT !.desiredOrientation = o, !.desiredTargetDistance = d,
                    !.currentOrientation = o, !.currentTargetDistance = d]

\* the rotation sensitivity of rotateH / rotateV
rotationSpeed(c) == IF c.mode = 1 THEN fpsRotationSpeed ELSE tbRotationSpeed

\* Camera.rotateH
rotateH(c, dPhi) ==
  [c EXCEPT !.rotationInput[1] = @ + (dPhi * rotationSpeed(c)) \div 16]

\* Camera.rotateV
rotateV(c, dTheta) ==
  [c EXCEPT !.rotationInput[2] = @ + (dTheta * rotationSpeed(c)) \div 16]

\* a guard that lets the move calls through in both modes
moveEnabled_inBothModes(c) == c.mode \in {0, 1} \/ c.enableAllControls

\* the guard of moveX / moveY / moveZ
moveEnabled(c) == c.mode = 1 \/ c.enableAllControls

\* the guard of panH / panV / zoom
panEnabled(c) == c.mode = 0 \/ c.enableAllControls

\* Camera.moveX
moveX(c, dx) ==
  IF moveEnabled(c)
  THEN [c EXCEPT !.movementInput[1] = @ + (dx * c.moveSpeed) \div 16]
  ELSE c

\* Camera.moveY
moveY(c, dy) ==
  IF moveEnabled(c)
  THEN [c EXCEPT !.movementInput[2] = @ + (dy * c.moveSpeed) \div 16]
  ELSE c

\* Camera.moveZ
moveZ(c, dz) ==
  IF moveEnabled(c)
  THEN [c EXCEPT !.movementInput[3] = @ + (dz * c.moveSpeed) \div 16]
  ELSE c

\* Camera.panH
panH(c, dx) ==
  IF panEnabled(c)
  THEN [c EXCEPT !.movementInput[1] = @ + (dx * c.panSpeed) \div 16]
  ELSE c

\* Camera.panV
panV(c, dy) ==
  IF panEnabled(c)
  THEN [c EXCEPT !.movementInput[2] = @ + (dy * c.panSpeed) \div 16]
  ELSE c

\* Camera.zoom
zoom(c, dz) ==
  IF panEnabled(c)
  THEN [c EXCEPT !.movementInput[3] = @ - (dz * c.zoomSpeed) \div 16]
  ELSE c

\* movementInput * movementSpeedMod
scaledInput(c) ==
  <<(c.movementInput[1] * c.movementSpeedMod) \div 64,
    (c.movementInput[2] * c.movementSpeedMod) \div 64,
    (c.movementInput[3] * c.movementSpeedMod) \div 64>>

\* a movement expressed in the axes of the desired orientation
movement_inDesiredAxes(c) == Rotate(c.desiredOrientation, scaledInput(c))

\* update, first statement: movement in camera coordinates
movement(c) == Rotate(c.currentOrientation, scaledInput(c))

\* update, mode 0: the guard of the zoom
zoomStaysAboveFloor(c) ==
  100 * (c.desiredTargetDistance + c.movementInput[3]) > c.zoomSpeed

\* a zoom that clamps the distance to the floor
zoomedDistance_clamped(c) ==
  IF zoomStaysAboveFloor(c)
  THEN c.desiredTargetDistance + c.movementInput[3]
  ELSE c.zoomSpeed \div 100

\* update, mode 0: desiredTargetDistance after the zoom
zoomedDistance(c) ==
  IF zoomStaysAboveFloor(c)
  THEN c.desiredTargetDistance + c.movementInput[3]
  ELSE c.desiredTargetDistance

\* update, mode 0: the statements that write the desired transform and distance
orbitDesired(c) ==
  LET oldTarget == VAdd(desiredPosition(c),
                        Forward(c.desiredOrientation, c.desiredTargetDistance))
      o == RotateYawPitch(c.desiredOrientation, c.rotationInput[1], c.rotationInput[2])
      newTarget == VAdd(desiredPosition(c), Forward(o, c.desiredTargetDistance))
      h1 == AddInPlace(c.vecObj, c.desiredPosRef, VSub(oldTarget, newTarget))
      h2 == AddInPlace(h1, c.desiredPosRef, movement(c))
  IN [c EXCEPT !.desiredOrientation = o,
               !.desiredTargetDistance = zoomedDistance(c),
               !.vecObj = h2]

\* update, mode 0: the interpolation, which writes the current transform and distance
orbitCurrent(c, deltaTime) ==
  LET a == PowMovement(deltaTime)
      dist == Mix(c.currentTargetDistance, c.desiredTargetDistance, a)
      desiredTarget == VAdd(desiredPosition(c),
                            Forward(c.desiredOrientation, c.desiredTargetDistance))
      oldActualTarget == VMix(VAdd(currentPosition(c), Forward(c.currentOrientation, dist)),
                              desiredTarget, a)
      o == Slerp(c.currentOrientation, c.desiredOrientation, PowRotation(deltaTime))
      newActualTarget == VAdd(currentPosition(c), Forward(o, dist))
  IN [c EXCEPT !.currentTargetDistance = dist,
               !.currentOrientation = o,
               !.vecObj = AddInPlace(c.vecObj, c.currentPosRef,
                                     VSub(oldActualTarget, newActualTarget))]

\* a mode-1 update that rotates the desired transform and leaves its position
flyDesired_withoutMovement(c) ==
  [c EXCEPT !.desiredOrientation =
               RotateYawPitch(c.desiredOrientation, c.rotationInput[1], c.rotationInput[2])]

\* update, mode 1: the statements that write the desired transform
flyDesired(c) ==
  [c EXCEPT !.vecObj = AddInPlace(c.vecObj, c.desiredPosRef, movement(c)),
            !.desiredOrientation =
               RotateYawPitch(c.desiredOrientation, c.rotationInput[1], c.rotationInput[2])]

\* update, mode 1: the interpolation; current.position is bound to the new vector mix returns
flyCurrent(c, deltaTime) ==
  LET p == VMix(currentPosition(c), desiredPosition(c), PowMovement(deltaTime))
      r == FreshRef({c.desiredPosRef})
  IN [c EXCEPT !.currentPosRef = r,
               !.vecObj = [Collect(c.vecObj, {c.desiredPosRef}) EXCEPT ![r] = p],
               !.currentOrientation =
                  Slerp(c.currentOrientation, c.desiredOrientation, PowRotation(deltaTime))]

\* an update that resets the two input accumulators only
finishUpdate_keepingSpeedMod(c) ==
  [c EXCEPT !.modelMatrix = mat4(currentPosition(c), c.currentOrientation),
            !.rotationInput = <<0, 0>>,
            !.movementInput = <<0, 0, 0>>]

\* update, last statements: the matrices, and the reset of the per-frame input
finishUpdate(c) ==
  [c EXCEPT !.modelMatrix = mat4(currentPosition(c), c.currentOrientation),
            !.rotationInput = <<0, 0>>,
            !.movementInput = <<0, 0, 0>>,
            !.movementSpeedMod = movementSpeedModInit]

\* Camera.update
update(c, deltaTime) ==
  IF c.mode = 0 THEN finishUpdate(orbitCurrent(orbitDesired(c), deltaTime))
  ELSE IF c.mode = 1 THEN finishUpdate(flyCurrent(flyDesired(c), deltaTime))
  ELSE finishUpdate(c)

\* every rotation of this update is one the model computes
updateDefined(c, deltaTime) ==
  LET o == RotateYawPitch(c.desiredOrientation, c.rotationInput[1], c.rotationInput[2]) IN
  /\ RotateDefined(c.currentOrientation, scaledInput(c))
  /\ SlerpOnGrid(c.currentOrientation, o, PowRotation(deltaTime))
  /\ c.mode = 0 =>
       /\ ForwardDefined(c.desiredOrientation, c.desiredTargetDistance)
       /\ ForwardDefined(o, c.desiredTargetDistance)
       /\ ForwardDefined(c.currentOrientation, c.currentTargetDistance)

\* Camera.__init__
Camera(mode, position, target) ==
  LET c0 == [mode |-> mode,
             enableAllControls |-> FALSE,
             moveSpeed |-> moveSpeedInit,
             panSpeed |-> panSpeedInit,
             zoomSpeed |-> zoomSpeedInit,
             movementSpeedMod |-> movementSpeedModInit,
             movementInput |-> <<0, 0, 0>>,
             rotationInput |-> <<0, 0>>,
             desiredPosRef |-> 1,
             currentPosRef |-> 1,
             vecObj |-> [i \in ObjIds |-> ZeroVec],
             desiredOrientation |-> <<0, 0>>,
             desiredTargetDistance |-> 0,
             currentOrientation |-> <<0, 0>>,
             currentTargetDistance |-> 0,
             modelMatrix |-> mat4(ZeroVec, <<0, 0>>)]
      c1 == setTarget(setPosition(c0, position, FALSE), target, FALSE)
  IN [c1 EXCEPT !.modelMatrix = mat4(currentPosition(c1), c1.currentOrientation)]

(***************************************************************************)
(* camera.py: class CameraKeyInputs.  A member is its value; two names     *)
(* with one value (PAN_RIGHT and ZOOM_IN) are one member, as in a Python   *)
(* Enum, and iterating the Enum yields each member once.                   *)
(***************************************************************************)
MOVE_FORWARD == 0
MOVE_BACKWARD == 1
MOVE_RIGHT == 2
MOVE_LEFT == 3
MOVE_UP == 4
MOVE_DOWN == 5
ENABLE_MOUSE_ROTATION == 6
ENABLE_MOUSE_PAN == 7
SWITCH_INPUT_MODE == 8
MOVE_FAST == 9
MOVE_SLOW == 10
INCREASE_SPEED == 11
DECREASE_SPEED == 12
ROTATE_UP == 13
ROTATE_DOWN == 14
ROTATE_RIGHT == 15
ROTATE_LEFT == 16
PAN_UP == 17
PAN_DOWN == 18
PAN_RIGHT == 20
PAN_LEFT == 19
ZOOM_IN == 20
ZOOM_OUT == 21

\* the names the class body declares, each with the member it denotes
CameraKeyInputsByName ==
  "MOVE_FORWARD" :> MOVE_FORWARD @@ "MOVE_BACKWARD" :> MOVE_BACKWARD @@ "MOVE_RIGHT" :> MOVE_RIGHT @@
  "MOVE_LEFT" :> MOVE_LEFT @@ "MOVE_UP" :> MOVE_UP @@ "MOVE_DOWN" :> MOVE_DOWN @@
  "ENABLE_MOUSE_ROTATION" :> ENABLE_MOUSE_ROTATION @@ "ENABLE_MOUSE_PAN" :> ENABLE_MOUSE_PAN @@ "SWITCH_INPUT_MODE" :> SWITCH_INPUT_MODE @@
  "MOVE_FAST" :> MOVE_FAST @@ "MOVE_SLOW" :> MOVE_SLOW @@ "INCREASE_SPEED" :> INCREASE_SPEED @@
  "DECREASE_SPEED" :> DECREASE_SPEED @@ "ROTATE_UP" :> ROTATE_UP @@ "ROTATE_DOWN" :> ROTATE_DOWN @@
  "ROTATE_RIGHT" :> ROTATE_RIGHT @@ "ROTATE_LEFT" :> ROTATE_LEFT @@ "PAN_UP" :> PAN_UP @@
  "PAN_DOWN" :> PAN_DOWN @@ "PAN_RIGHT" :> PAN_RIGHT @@ "PAN_LEFT" :> PAN_LEFT @@
  "ZOOM_IN" :> ZOOM_IN @@ "ZOOM_OUT" :> ZOOM_OUT

\* the members: what iterating the Enum yields
CameraKeyInputs ==
  {MOVE_FORWARD, MOVE_BACKWARD, MOVE_RIGHT, MOVE_LEFT, MOVE_UP, MOVE_DOWN,
   ENABLE_MOUSE_ROTATION, ENABLE_MOUSE_PAN, SWITCH_INPUT_MODE, MOVE_FAST, MOVE_SLOW,
   INCREASE_SPEED, DECREASE_SPEED, ROTATE_UP, ROTATE_DOWN, ROTATE_RIGHT, ROTATE_LEFT,
   PAN_UP, PAN_DOWN, PAN_RIGHT, PAN_LEFT, ZOOM_IN, ZOOM_OUT}

(***************************************************************************)
(* camera.py: class CameraInputHandler.  The handler's camera is cam; a    *)
(* handler method is an operator from the handler's fields (and the        *)
(* event) to the fields it writes.                                         *)
(***************************************************************************)
\* CameraInputHandler.__init__: the key map used when none is given
DefaultKeyMap ==
  "W" :> MOVE_FORWARD @@ "S" :> MOVE_BACKWARD @@ "D" :> MOVE_RIGHT @@ "A" :> MOVE_LEFT @@
  "Q" :> MOVE_DOWN @@ "E" :> MOVE_UP @@ "Control" :> ENABLE_MOUSE_ROTATION @@
  "Alt" :> ENABLE_MOUSE_PAN @@ "Shift" :> MOVE_SLOW @@ " " :> MOVE_FAST @@
  "X" :> SWITCH_INPUT_MODE @@ "F" :> INCREASE_SPEED @@ "C" :> DECREASE_SPEED @@
  "Up" :> ROTATE_UP @@ "Down" :> ROTATE_DOWN @@ "Left" :> ROTATE_LEFT @@
  "Right" :> ROTATE_RIGHT

\* CameraInputHandler.__init__: the mouse settings
enableMouseRotation == TRUE
enableMousePan == TRUE
enableMouseZoom == TRUE
rotateMouseButton == 1
panMouseButton == 3

\* every member of CameraKeyInputs marked released
allReleased == [function \in CameraKeyInputs |-> FALSE]

\* a setKeyMap that replaces the map only
setKeyMapDown_keepingHeld(kd) == kd

\* CameraInputHandler.setKeyMap: the held state after the call (kd: the one before)
setKeyMapDown(kd) == allReleased

\* CameraInputHandler.on_key_pressed: the camera after the event
keyPressedCam(c, km, event) ==
  IF ~event.handled /\ event.key \in DOMAIN km /\ km[event.key] = SWITCH_INPUT_MODE
  THEN [c EXCEPT !.mode = (c.mode + 1) % 2]
  ELSE c

\* a press that marks the switch action held like any other action
keyPressedDown_markingSwitch(kd, km, event) ==
  IF ~event.handled /\ event.key \in DOMAIN km
  THEN [kd EXCEPT ![km[event.key]] = TRUE]
  ELSE kd

\* CameraInputHandler.on_key_pressed: the held state after the event
keyPressedDown(kd, km, event) ==
  IF ~event.handled /\ event.key \in DOMAIN km /\ km[event.key] # SWITCH_INPUT_MODE
  THEN [kd EXCEPT ![km[event.key]] = TRUE]
  ELSE kd

\* a release that leaves the held state as it was
keyReleasedDown_ignored(kd, km, event) == kd

\* CameraInputHandler.on_key_released: the held state after the event
keyReleasedDown(kd, km, event) ==
  IF ~event.handled /\ event.key \in DOMAIN km
  THEN [kd EXCEPT ![km[event.key]] = FALSE]
  ELSE kd

\* on_mouse_move: the condition of the rotate branch
rotateActive(kd, event) ==
  enableMouseRotation /\ (rotateMouseButton \in event.buttons \/ kd[ENABLE_MOUSE_ROTATION])

\* on_mouse_move: the condition of the pan branch
panActive(kd, event) ==
  enableMousePan /\ (panMouseButton \in event.buttons \/ kd[ENABLE_MOUSE_PAN])

\* an on_mouse_move that tests the pan branch first
mouseMoveCam_panFirst(c, kd, prev, event) ==
  LET mouseDelta == <<event.pos[1] - prev[1], event.pos[2] - prev[2]>> IN
  IF event.handled THEN c
  ELSE IF panActive(kd, event)
    THEN panV(panH(c, -mouseDelta[1] * 16), mouseDelta[2] * 16)
  ELSE IF rotateActive(kd, event)
    THEN rotateV(rotateH(c, -mouseDelta[1] * 16), -mouseDelta[2] * 16)
  ELSE c

\* CameraInputHandler.on_mouse_move: the camera after the event (a pixel is 16 argument units)
mouseMoveCam(c, kd, prev, event) ==
  LET mouseDelta == <<event.pos[1] - prev[1], event.pos[2] - prev[2]>> IN
  IF event.handled THEN c
  ELSE IF rotateActive(kd, event)
    THEN rotateV(rotateH(c, -mouseDelta[1] * 16), -mouseDelta[2] * 16)
  ELSE IF panActive(kd, event)
    THEN panV(panH(c, -mouseDelta[1] * 16), mouseDelta[2] * 16)
  ELSE c

\* CameraInputHandler.on_mouse_move: prevMousePos after the event
mouseMovePrev(prev, event) == IF event.handled THEN prev ELSE event.pos

\* CameraInputHandler.on_mouse_wheel (delta[1] in whole notches)
mouseWheelCam(c, event) ==
  IF ~event.handled /\ enableMouseZoom THEN zoom(c, event.delta * 10 * 16) ELSE c

\* sys.float_info.min (2.2e-308) at the model's resolution
FloatMin == 0

\* speed + change * 0.025 * (speed + sys.float_info.min), change in 1/16
changedSpeed(speed, change) == speed + (change * (speed + FloatMin)) \div 640

\* CameraInputHandler.changeMovementSpeed
changeMovementSpeed(c, change) ==
  [c EXCEPT !.moveSpeed = changedSpeed(c.moveSpeed, change),
            !.panSpeed = changedSpeed(c.panSpeed, change),
            !.zoomSpeed = changedSpeed(c.zoomSpeed, change)]

\* a modifier that doubles whatever the factor is
timesSpeedMod_doubling(c, factor) == [c EXCEPT !.movementSpeedMod = @ * 2]

\* on_draw: MOVE_FAST / MOVE_SLOW, "movementSpeedMod *= factor", factor in halves
timesSpeedMod(c, factor) == [c EXCEPT !.movementSpeedMod = (@ * factor) \div 2]

\* one "if self._keyDown[function]: call(argument)" statement of on_draw
whenDown(kd, function, call(_, _), c, argument) ==
  IF kd[function] THEN call(c, argument) ELSE c

\* CameraInputHandler.on_draw (deltaTime in 1/16 s, arguments in 1/16)
on_draw(c, kd, deltaTime) ==
  LET c1 == whenDown(kd, INCREASE_SPEED, changeMovementSpeed, c, 20 * deltaTime)
      c2 == whenDown(kd, DECREASE_SPEED, changeMovementSpeed, c1, -20 * deltaTime)
      c3 == whenDown(kd, MOVE_BACKWARD, moveZ, c2, 20 * deltaTime)
      c4 == whenDown(kd, MOVE_FORWARD, moveZ, c3, -20 * deltaTime)
      c5 == whenDown(kd, MOVE_RIGHT, moveX, c4, 20 * deltaTime)
      c6 == whenDown(kd, MOVE_LEFT, moveX, c5, -20 * deltaTime)
      c7 == whenDown(kd, MOVE_UP, moveY, c6, 20 * deltaTime)
      c8 == whenDown(kd, MOVE_DOWN, moveY, c7, -20 * deltaTime)
      c9 == whenDown(kd, MOVE_FAST, timesSpeedMod, c8, 4)
      c10 == whenDown(kd, MOVE_SLOW, timesSpeedMod, c9, 1)
      c11 == whenDown(kd, ROTATE_UP, rotateV, c10, 60 * deltaTime)
      c12 == whenDown(kd, ROTATE_DOWN, rotateV, c11, -60 * deltaTime)
      c13 == whenDown(kd, ROTATE_RIGHT, rotateH, c12, -60 * deltaTime)
      c14 == whenDown(kd, ROTATE_LEFT, rotateH, c13, 60 * deltaTime)
      c15 == whenDown(kd, PAN_UP, panV, c14, 60 * deltaTime)
      c16 == whenDown(kd, PAN_DOWN, panV, c15, -60 * deltaTime)
      c17 == whenDown(kd, PAN_RIGHT, panH, c16, 60 * deltaTime)
      c18 == whenDown(kd, PAN_LEFT, panH, c17, -60 * deltaTime)
      c19 == whenDown(kd, ZOOM_IN, panH, c18, 1 * deltaTime)
      c20 == whenDown(kd, ZOOM_OUT, panH, c19, -1 * deltaTime)
  IN c20

(***************************************************************************)
(* ParticleVis.py: class Canvas.  program['view'] is the matrix the        *)
(* renderer draws with.  A callback runs to completion before the event    *)
(* loop dispatches the next event; pc is the statement Canvas.on_draw is   *)
(* at, "idle" between callbacks.                                           *)
(***************************************************************************)
\* glm.inverse of a model matrix, kept symbolic
inverse(m) == <<"inverse", m>>

\* Camera.viewMatrix, as __init__ and update compute it
viewMatrix(c) == inverse(c.modelMatrix)

\* Canvas.__init__
Canvas(position, target, c) ==
  [initialCamPosition |-> position,
   initialCamTarget |-> target,
   view |-> viewMatrix(c),
   pc |-> "idle",
   dt |-> 0,
   frames |-> 0,
   handlerDraws |-> 0,
   updates |-> 0]

\* Canvas.resetCamera
resetCamera(cv, c) ==
  setTarget(setPosition(c, cv.initialCamPosition, TRUE), cv.initialCamTarget, TRUE)

\* an on_draw that updates the camera before it asks the input handler
drawNext_updateFirst(pc) ==
  CASE pc = "idle" -> "update"
    [] pc = "update" -> "on_draw"
    [] pc = "on_draw" -> "view"
    [] pc = "view" -> "idle"

\* Canvas.on_draw: the statement after the one at pc
drawNext(pc) ==
  CASE pc = "idle" -> "on_draw"
    [] pc = "on_draw" -> "update"
    [] pc = "update" -> "view"
    [] pc = "view" -> "idle"

(***************************************************************************)
(* The state machine.  cam is the Camera, keyMap / keyDown / prevMousePos  *)
(* the CameraInputHandler bound to it.  last records the operation that    *)
(* led to the state: its name, its arguments, and the fields before it.    *)
(* canvas is the Canvas that owns both and draws the frames.  steps        *)
(* counts the operations (calls, events, frames) of the run.               *)
(***************************************************************************)
\* constructor arguments
InitPositions == {<<0, 0, 40000>>, <<8000, 0, 0>>}
InitTargets == {<<0, 0, 0>>}

\* arguments of the calls (rotate/move/pan/zoom in 1/16)
Positions == {<<0, 0, 40000>>, <<0, 0, 0>>}
Targets == {<<0, 0, 0>>, <<0, 0, 40000>>, <<8000, 0, 40000>>}
RotateArgs == {5024}
MoveArgs == {-16, 16}
PanArgs == {160}
ZoomArgs == {-16, 63, 160}
\* "*= 0.5" and "*= 2.0", in halves
SpeedModFactors == {1, 4}
\* the changes on_draw passes for a frame of 1 s and of 16 s, in 1/16
SpeedChanges == {-5120, -320, 320}

\* events
ModelKeys == {"W", "X", "F", "P", "Control", "Alt"}
MouseEvents ==
  [pos : {<<0, 0>>, <<314, 0>>, <<0, 314>>}, buttons : {{}, {1}, {3}, {1, 3}},
   handled : {FALSE}]
  \cup [pos : {<<314, 0>>}, buttons : {{}, {1}}, handled : {TRUE}]
WheelDeltas == {1}

\* a key map without "W", with keys for ZOOM_IN, ZOOM_OUT and PAN_RIGHT
OtherKeyMap ==
  "Z" :> ZOOM_IN @@ "P" :> PAN_RIGHT @@ "X" :> SWITCH_INPUT_MODE @@ "F" :> ZOOM_OUT
KeyMaps == {DefaultKeyMap, OtherKeyMap}

Called(op, args) ==
  [op |-> op, args |-> args, cam |-> cam, keyDown |-> keyDown, prevMousePos |-> prevMousePos]

Init ==
  /\ \E mode \in {0, 1}, position \in InitPositions, target \in InitTargets :
       /\ LookAtDefined(position, target)
       /\ cam = Camera(mode, position, target)
       /\ canvas = Canvas(position, target, Camera(mode, position, target))
       /\ last = [op |-> "__init__",
                  args |-> [mode |-> mode, position |-> position, target |-> target],
                  cam |-> Camera(mode, position, target),
                  keyDown |-> allReleased,
                  prevMousePos |-> <<0, 0>>]
  /\ keyMap = DefaultKeyMap
  /\ keyDown = allReleased
  /\ prevMousePos = <<0, 0>>
  /\ steps = 0

Step(op, args) ==
  /\ steps < MaxSteps
  /\ steps' = steps + 1
  /\ last' = Called(op, args)
  /\ UNCHANGED canvas

handlerUnchanged == UNCHANGED <<keyMap, keyDown, prevMousePos>>

(* ------------------------------ Camera ------------------------------- *)
SetPosition ==
  \E position \in Positions, interpolate \in BOOLEAN :
    /\ Step("setPosition", [position |-> position, interpolate |-> interpolate])
    /\ cam' = setPosition(cam, position, interpolate)
    /\ handlerUnchanged

SetTarget ==
  \E target \in Targets, interpolate \in BOOLEAN :
    /\ setTargetDefined(cam, target)
    /\ Step("setTarget", [target |-> target, interpolate |-> interpolate])
    /\ cam' = setTarget(cam, target, interpolate)
    /\ handlerUnchanged

RotateH ==
  \E d \in RotateArgs :
    /\ Step("rotateH", [d |-> d])
    /\ cam' = rotateH(cam, d)
    /\ handlerUnchanged

RotateV ==
  \E d \in RotateArgs :
    /\ Step("rotateV", [d |-> d])
    /\ cam' = rotateV(cam, d)
    /\ handlerUnchanged

MoveX ==
  \E d \in MoveArgs :
    /\ Step("moveX", [d |-> d])
    /\ cam' = moveX(cam, d)
    /\ handlerUnchanged

MoveY ==
  \E d \in MoveArgs :
    /\ Step("moveY", [d |-> d])
    /\ cam' = moveY(cam, d)
    /\ handlerUnchanged

MoveZ ==
  \E d \in MoveArgs :
    /\ Step("moveZ", [d |-> d])
    /\ cam' = moveZ(cam, d)
    /\ handlerUnchanged

PanH ==
  \E d \in PanArgs :
    /\ Step("panH", [d |-> d])
    /\ cam' = panH(cam, d)
    /\ handlerUnchanged

PanV ==
  \E d \in PanArgs :
    /\ Step("panV", [d |-> d])
    /\ cam' = panV(cam, d)
    /\ handlerUnchanged

Zoom ==
  \E d \in ZoomArgs :
    /\ Step("zoom", [d |-> d])
    /\ cam' = zoom(cam, d)
    /\ handlerUnchanged

Update ==
  \E deltaTime \in DtSet :
    /\ updateDefined(cam, deltaTime) = TRUE
    /\ Step("update", [deltaTime |-> deltaTime])
    /\ cam' = update(cam, deltaTime)
    /\ handlerUnchanged

\* the settings are plain attributes: "cam.enableAllControls = value"
SetEnableAllControls ==
  \E value \in BOOLEAN :
    /\ value # cam.enableAllControls
    /\ Step("enableAllControls", [value |-> value])
    /\ cam' = [cam EXCEPT !.enableAllControls = value]
    /\ handlerUnchanged

\* "camera.movementSpeedMod *= factor", as CameraInputHandler.on_draw writes it
TimesSpeedMod ==
  \E factor \in SpeedModFactors :
    /\ Step("movementSpeedMod", [factor |-> factor])
    /\ cam' = timesSpeedMod(cam, factor)
    /\ handlerUnchanged

(* ------------------------- CameraInputHandler ------------------------ *)
ChangeMovementSpeed ==
  \E change \in SpeedChanges :
    /\ cam.zoomSpeed \in -MaxSpeed..MaxSpeed
    /\ Step("changeMovementSpeed", [change |-> change])
    /\ cam' = changeMovementSpeed(cam, change)
    /\ handlerUnchanged

SetKeyMap ==
  \E km \in KeyMaps :
    /\ Step("setKeyMap", [keyMap |-> km])
    /\ keyMap' = km
    /\ keyDown' = setKeyMapDown(keyDown)
    /\ UNCHANGED <<cam, prevMousePos>>

OnKeyPressed ==
  \E key \in ModelKeys, handled \in BOOLEAN :
    LET event == [key |-> key, handled |-> handled] IN
    /\ Step("on_key_pressed", event)
    /\ cam' = keyPressedCam(cam, keyMap, event)
    /\ keyDown' = keyPressedDown(keyDown, keyMap, event)
    /\ UNCHANGED <<keyMap, prevMousePos>>

OnKeyReleased ==
  \E key \in ModelKeys, handled \in BOOLEAN :
    LET event == [key |-> key, handled |-> handled] IN
    /\ Step("on_key_released", event)
    /\ keyDown' = keyReleasedDown(keyDown, keyMap, event)
    /\ UNCHANGED <<cam, keyMap, prevMousePos>>

OnMouseMove ==
  \E event \in MouseEvents :
    /\ Step("on_mouse_move", event)
    /\ cam' = mouseMoveCam(cam, keyDown, prevMousePos, event)
    /\ prevMousePos' = mouseMovePrev(prevMousePos, event)
    /\ UNCHANGED <<keyMap, keyDown>>

OnMouseWheel ==
  \E delta \in WheelDeltas, handled \in BOOLEAN :
    LET event == [delta |-> delta, handled |-> handled] IN
    /\ Step("on_mouse_wheel", event)
    /\ cam' = mouseWheelCam(cam, event)
    /\ handlerUnchanged

OnDraw ==
  \E deltaTime \in DtSet :
    /\ cam.zoomSpeed \in -MaxSpeed..MaxSpeed
    /\ Step("on_draw", [deltaTime |-> deltaTime])
    /\ cam' = on_draw(cam, keyDown, deltaTime)
    /\ handlerUnchanged

(* ------------------------------- Canvas ------------------------------ *)
\* keys and mouse events delivered to the Canvas
CanvasKeys == {"R", "X", " ", "Shift", "W"}
CanvasMouseEvents == [pos : {<<314, 0>>}, buttons : {{1}, {3}}, handled : {FALSE}]

\* a callback of the Canvas starts: the event loop is between callbacks
Dispatch(op, args) ==
  /\ canvas.pc = "idle"
  /\ steps < MaxSteps
  /\ steps' = steps + 1
  /\ last' = Called(op, args)

\* Canvas.on_draw goes on to its next statement
Proceed(op, args) ==
  /\ steps' = steps
  /\ last' = Called(op, args)

\* Canvas.on_key_press
CanvasOnKeyPress ==
  \E key \in CanvasKeys :
    LET event == [key |-> key, handled |-> FALSE] IN
    /\ Dispatch("Canvas.on_key_press", event)
    /\ cam' = IF key = "R" THEN resetCamera(canvas, cam) ELSE keyPressedCam(cam, keyMap, event)
    /\ keyDown' = IF key = "R" THEN keyDown ELSE keyPressedDown(keyDown, keyMap, event)
    /\ UNCHANGED <<keyMap, prevMousePos, canvas>>

\* Canvas.on_key_release
CanvasOnKeyRelease ==
  \E key \in CanvasKeys :
    LET event == [key |-> key, handled |-> FALSE] IN
    /\ Dispatch("Canvas.on_key_release", event)
    /\ keyDown' = keyReleasedDown(keyDown, keyMap, event)
    /\ UNCHANGED <<cam, keyMap, prevMousePos, canvas>>

\* Canvas.on_mouse_move
CanvasOnMouseMove ==
  \E event \in CanvasMouseEvents :
    /\ Dispatch("Canvas.on_mouse_move", event)
    /\ cam' = mouseMoveCam(cam, keyDown, prevMousePos, event)
    /\ prevMousePos' = mouseMovePrev(prevMousePos, event)
    /\ UNCHANGED <<keyMap, keyDown, canvas>>

\* Canvas.on_mouse_wheel
CanvasOnMouseWheel ==
  \E delta \in WheelDeltas :
    LET event == [delta |-> delta, handled |-> FALSE] IN
    /\ Dispatch("Canvas.on_mouse_wheel", event)
    /\ cam' = mouseWheelCam(cam, event)
    /\ UNCHANGED <<keyMap, keyDown, prevMousePos, canvas>>

\* Canvas.on_draw, "dt = newTime - self._lastTime": the time since the last frame
DrawFrameTime ==
  \E dt \in DtSet :
    /\ updateDefined(on_draw(cam, keyDown, dt), dt) = TRUE
    /\ Dispatch("Canvas.on_draw", [dt |-> dt])
    /\ canvas' = [canvas EXCEPT !.pc = drawNext(@), !.dt = dt, !.frames = @ + 1]
    /\ UNCHANGED <<cam, keyMap, keyDown, prevMousePos>>

\* Canvas.on_draw, "self.camInputHandler.on_draw(dt)"
DrawHandler ==
  /\ canvas.pc = "on_draw"
  /\ Proceed("on_draw", [deltaTime |-> canvas.dt])
  /\ cam' = on_draw(cam, keyDown, canvas.dt)
  /\ canvas' = [canvas EXCEPT !.pc = drawNext(@), !.handlerDraws = @ + 1]
  /\ UNCHANGED <<keyMap, keyDown, prevMousePos>>

\* Canvas.on_draw, "self.cam.update(dt)"
DrawUpdate ==
  /\ canvas.pc = "update"
  /\ Proceed("update", [deltaTime |-> canvas.dt])
  /\ cam' = update(cam, canvas.dt)
  /\ canvas' = [canvas EXCEPT !.pc = drawNext(@), !.updates = @ + 1]
  /\ UNCHANGED <<keyMap, keyDown, prevMousePos>>

\* Canvas.on_draw, "self.program['view'] = self.cam.viewMatrix", and the drawing
DrawView ==
  /\ canvas.pc = "view"
  /\ Proceed("program.view", [deltaTime |-> canvas.dt])
  /\ canvas' = [canvas EXCEPT !.pc = drawNext(@), !.view = viewMatrix(cam)]
  /\ UNCHANGED <<cam, keyMap, keyDown, prevMousePos>>

(* --------------------------- specifications -------------------------- *)
\* the Camera driven through its own methods
Next ==
  \/ SetPosition \/ SetTarget
  \/ RotateH \/ RotateV
  \/ MoveX \/ MoveY \/ MoveZ
  \/ PanH \/ PanV \/ Zoom
  \/ Update
  \/ SetEnableAllControls
  \/ TimesSpeedMod
  \/ ChangeMovementSpeed

Spec == Init /\ [][Next]_vars

\* the Camera driven by events through its CameraInputHandler
NextInput ==
  \/ SetKeyMap
  \/ OnKeyPressed \/ OnKeyReleased
  \/ OnMouseMove \/ OnMouseWheel
  \/ OnDraw
  \/ Update

SpecInput == Init /\ [][NextInput]_vars

\* a camera in ORBIT mode driven by zoom(dz), dz > 0, and update only
InitOrbit == Init /\ cam.mode = 0

ZoomIn ==
  \E d \in {z \in ZoomArgs : z > 0} :
    /\ Step("zoom", [d |-> d])
    /\ cam' = zoom(cam, d)
    /\ handlerUnchanged

NextZoom == ZoomIn \/ Update

SpecZoom == InitOrbit /\ [][NextZoom]_vars

\* a camera constructed in ORBIT mode, driven by rotateH / rotateV and update only
NextOrbit == RotateH \/ RotateV \/ Update

SpecOrbit == InitOrbit /\ [][NextOrbit]_vars

\* the Canvas: "self.cam = Camera(1, ...)", driven by events and frames
InitCanvas == Init /\ cam.mode = 1

NextCanvas ==
  \/ CanvasOnKeyPress \/ CanvasOnKeyRelease
  \/ CanvasOnMouseMove \/ CanvasOnMouseWheel
  \/ DrawFrameTime \/ DrawHandler \/ DrawUpdate \/ DrawView

SpecCanvas == InitCanvas /\ [][NextCanvas]_vars

\* a camera whose movement input comes from the mouse only (panH, panV, zoom), with mode switches
NextSwitch == OnMouseMove \/ OnMouseWheel \/ OnKeyPressed \/ Update

SpecSwitch == Init /\ [][NextSwitch]_vars


(***************************************************************************)
(* Properties.  A state reached by an operation carries that operation in  *)
(* last (name, arguments, and the fields before it), so a statement about  *)
(* one call is a statement about the state it leaves.                      *)
(***************************************************************************)
MoveOps == {"moveX", "moveY", "moveZ"}
PanOps == {"panH", "panV", "zoom"}

\* 100 * distance against zoomSpeed: the floor 0.01 * zoomSpeed without fractions
Epsilon100(c) == c.zoomSpeed

(* C1: when update returns, rotationInput and movementInput are zero and   *)
(* movementSpeedMod is 1.0, in either mode and whatever had accumulated;   *)
(* so an update that follows consumes no input of an earlier frame.        *)
C1_InputResetByUpdate ==
  last.op = "update" =>
    /\ cam.rotationInput = <<0, 0>>
    /\ cam.movementInput = <<0, 0, 0>>
    /\ cam.movementSpeedMod = movementSpeedModInit
    /\ scaledInput(cam) = <<0, 0, 0>>

\* an update that found both movement and rotation input accumulated
C1_Witness ==
  /\ last.op = "update"
  /\ last.cam.movementInput # <<0, 0, 0>>
  /\ last.cam.rotationInput # <<0, 0>>
  /\ cam.movementInput = <<0, 0, 0>>
  /\ cam.rotationInput = <<0, 0>>

(* C2: with enableAllControls false, moveX/moveY/moveZ in ORBIT mode and   *)
(* panH/panV/zoom in FLY mode leave the whole camera as it was; with       *)
(* enableAllControls true each of the six calls, given a non-zero          *)
(* argument, changes movementInput.                                        *)
C2_ModeGating ==
  /\ (last.op \in MoveOps /\ last.cam.mode = 0 /\ ~last.cam.enableAllControls)
       => cam = last.cam
  /\ (last.op \in PanOps /\ last.cam.mode = 1 /\ ~last.cam.enableAllControls)
       => cam = last.cam
  /\ (last.op \in MoveOps \cup PanOps /\ last.cam.enableAllControls /\ last.args.d # 0)
       => cam.movementInput # last.cam.movementInput

\* a move call made in ORBIT mode with enableAllControls false
C2_Witness ==
  /\ last.op = "moveZ"
  /\ last.args.d # 0
  /\ last.cam.mode = 0
  /\ ~last.cam.enableAllControls
  /\ cam.movementInput = last.cam.movementInput

(* C3: in ORBIT mode, from a target distance above the floor, no sequence  *)
(* of zoom(dz), dz > 0, and update(dt) brings desiredTargetDistance or     *)
(* currentTargetDistance to or below 0.01 * zoomSpeed.                     *)
C3_ZoomNeverReachesFloor ==
  /\ 100 * cam.desiredTargetDistance > Epsilon100(cam)
  /\ 100 * cam.currentTargetDistance > Epsilon100(cam)

(* C4: in ORBIT mode currentTargetDistance >= 0.01 * zoomSpeed in every    *)
(* state the public operations reach.                                      *)
C4_DistanceAtLeastFloor ==
  cam.mode = 0 => 100 * cam.currentTargetDistance >= Epsilon100(cam)

(* C5: an ORBIT update whose zoom would leave desiredTargetDistance +      *)
(* movementInput.z at or below 0.01 * zoomSpeed keeps desiredTargetDistance*)
(* exactly (not clamped, not partly applied) and still does the rest of    *)
(* the update: the rotation, the interpolation, the reset of the input.    *)
C5_ZoomDeltaDropped ==
  (/\ last.op = "update"
   /\ last.cam.mode = 0
   /\ 100 * (last.cam.desiredTargetDistance + last.cam.movementInput[3])
        <= Epsilon100(last.cam))
  => /\ cam.desiredTargetDistance = last.cam.desiredTargetDistance
     /\ cam.desiredOrientation =
          RotateYawPitch(last.cam.desiredOrientation,
                         last.cam.rotationInput[1], last.cam.rotationInput[2])
     /\ cam.currentTargetDistance =
          Mix(last.cam.currentTargetDistance, last.cam.desiredTargetDistance,
              PowMovement(last.args.deltaTime))
     /\ cam.movementInput = <<0, 0, 0>>
     /\ cam.rotationInput = <<0, 0>>

\* an update that dropped a non-zero zoom
C5_Witness ==
  /\ last.op = "update"
  /\ last.cam.mode = 0
  /\ last.cam.movementInput[3] < 0
  /\ 100 * (last.cam.desiredTargetDistance + last.cam.movementInput[3])
       <= Epsilon100(last.cam)
  /\ 100 * last.cam.desiredTargetDistance > Epsilon100(last.cam)
  /\ cam.desiredTargetDistance = last.cam.desiredTargetDistance

\* the camera between the two halves of the update that led to this state
afterDesiredWrites(c) == IF c.mode = 0 THEN orbitDesired(c) ELSE flyDesired(c)

(* C6: the desired and the current transform are independent values: the   *)
(* statements of update that write the desired position leave the current  *)
(* position as it was, and the interpolation that writes the current       *)
(* position leaves the desired position as it was.                         *)
C6_TransformsIndependent ==
  (last.op = "update" /\ last.cam.mode \in {0, 1}) =>
    /\ currentPosition(afterDesiredWrites(last.cam)) = currentPosition(last.cam)
    /\ desiredPosition(cam) = desiredPosition(afterDesiredWrites(last.cam))


\* no action is marked held
noneHeld(kd) == \A function \in CameraKeyInputs : ~kd[function]

(* C7: setKeyMap marks every action released, also one whose key was held  *)
(* when the map was replaced; an on_draw that finds no action held leaves  *)
(* the camera as it was; and an action becomes held only by an unconsumed  *)
(* press of a key of the map in use.                                       *)
C7_SetKeyMapReleasesAll ==
  /\ last.op = "setKeyMap" => noneHeld(keyDown)
  /\ (last.op = "on_draw" /\ noneHeld(last.keyDown)) => cam = last.cam
  /\ (\E function \in CameraKeyInputs : keyDown[function] /\ ~last.keyDown[function])
       => /\ last.op = "on_key_pressed"
          /\ ~last.args.handled
          /\ last.args.key \in DOMAIN keyMap

\* a key map installed while MOVE_FORWARD was held
C7_Witness ==
  /\ last.op = "setKeyMap"
  /\ last.keyDown[MOVE_FORWARD]
  /\ keyMap = last.args.keyMap
  /\ noneHeld(keyDown)

(* C8: an unconsumed press of the SWITCH_INPUT_MODE key toggles the mode   *)
(* once (mode' = (mode + 1) % 2); a release never changes the mode;        *)
(* keyDown[SWITCH_INPUT_MODE] is false in every state; mode is 0 or 1.     *)
C8_SwitchIsEdgeTriggered ==
  /\ (/\ last.op = "on_key_pressed"
      /\ ~last.args.handled
      /\ last.args.key \in DOMAIN keyMap
      /\ keyMap[last.args.key] = SWITCH_INPUT_MODE)
       => /\ cam.mode = (last.cam.mode + 1) % 2
          /\ cam.mode # last.cam.mode
  /\ last.op = "on_key_released" => cam.mode = last.cam.mode
  /\ last.op = "on_draw" => cam.mode = last.cam.mode
  /\ ~keyDown[SWITCH_INPUT_MODE]
  /\ cam.mode \in {0, 1}

\* the switch key pressed in FLY mode
C8_Witness ==
  /\ last.op = "on_key_pressed"
  /\ ~last.args.handled
  /\ last.args.key \in DOMAIN keyMap
  /\ keyMap[last.args.key] = SWITCH_INPUT_MODE
  /\ last.cam.mode = 1
  /\ cam.mode = 0

(* C9, as stated: after on_key_released(event) for a key of the key map    *)
(* the mapped action is marked released.                                   *)
C9_ReleaseMarksReleased ==
  (last.op = "on_key_released" /\ last.args.key \in DOMAIN keyMap)
    => ~keyDown[keyMap[last.args.key]]

(* C9, for events not yet consumed: after on_key_released(event) with      *)
(* event.handled false, for a key of the key map, the mapped action is     *)
(* marked released; a consumed event leaves the held state as it was.      *)
C9_UnconsumedReleaseMarksReleased ==
  /\ (last.op = "on_key_released" /\ ~last.args.handled
        /\ last.args.key \in DOMAIN keyMap)
       => ~keyDown[keyMap[last.args.key]]
  /\ (last.op = "on_key_released" /\ last.args.handled) => keyDown = last.keyDown

\* the release of a key whose action was held
C9_Witness ==
  /\ last.op = "on_key_released"
  /\ ~last.args.handled
  /\ last.args.key \in DOMAIN keyMap
  /\ last.keyDown[keyMap[last.args.key]]
  /\ ~keyDown[keyMap[last.args.key]]

(* C10: after every on_mouse_move(event), prevMousePos equals event.pos,   *)
(* whether or not rotate or pan is active and whether or not the event was *)
(* already consumed.                                                       *)
C10_PrevMousePosFollowsEvent ==
  last.op = "on_mouse_move" => prevMousePos = last.args.pos


\* the mouse-move event that led to this state: its delta, and what was active
moveDelta == <<last.args.pos[1] - last.prevMousePos[1], last.args.pos[2] - last.prevMousePos[2]>>
moveRotates == rotateMouseButton \in last.args.buttons \/ last.keyDown[ENABLE_MOUSE_ROTATION]
movePans == panMouseButton \in last.args.buttons \/ last.keyDown[ENABLE_MOUSE_PAN]

\* what the camera is after rotateH(-dx), rotateV(-dy) / after panH(-dx), panV(+dy)
rotatedByMove == rotateV(rotateH(last.cam, -moveDelta[1] * 16), -moveDelta[2] * 16)
pannedByMove == panV(panH(last.cam, -moveDelta[1] * 16), moveDelta[2] * 16)

(* C11, as stated: every mouse-move event with rotate active calls         *)
(* rotateH(-dx), rotateV(-dy) and no pan; with only pan active it calls    *)
(* panH(-dx), panV(+dy); with neither active the camera is unchanged.      *)
C11_MoveRotatesOrPans ==
  last.op = "on_mouse_move" =>
    /\ moveRotates =>
         cam = rotatedByMove /\ cam.movementInput = last.cam.movementInput
    /\ (~moveRotates /\ movePans) =>
         cam = pannedByMove /\ cam.rotationInput = last.cam.rotationInput
    /\ (~moveRotates /\ ~movePans) => cam = last.cam

(* C11, for events not yet consumed: a mouse-move event with event.handled *)
(* false is forwarded to rotation (rotateH(-dx), rotateV(-dy), no pan)     *)
(* when rotate is active, also when pan is active too; to pan (panH(-dx),  *)
(* panV(+dy), no rotation) when only pan is active; to neither otherwise.  *)
(* A consumed event leaves the camera unchanged.                           *)
C11_UnconsumedMoveRotatesOrPans ==
  last.op = "on_mouse_move" =>
    /\ (~last.args.handled /\ moveRotates) =>
         cam = rotatedByMove /\ cam.movementInput = last.cam.movementInput
    /\ (~last.args.handled /\ ~moveRotates /\ movePans) =>
         cam = pannedByMove /\ cam.rotationInput = last.cam.rotationInput
    /\ (~last.args.handled /\ ~moveRotates /\ ~movePans) => cam = last.cam
    /\ last.args.handled => cam = last.cam

\* a move in ORBIT mode with the pan button pressed and the rotate modifier held
C11_Witness ==
  /\ last.op = "on_mouse_move"
  /\ ~last.args.handled
  /\ last.cam.mode = 0
  /\ panMouseButton \in last.args.buttons
  /\ last.keyDown[ENABLE_MOUSE_ROTATION]
  /\ moveDelta[1] # 0
  /\ cam.rotationInput # last.cam.rotationInput
  /\ cam.movementInput = last.cam.movementInput


\* the state was reached by a key event the handler acted on
keyEventActedOn ==
  /\ last.op \in {"on_key_pressed", "on_key_released"}
  /\ ~last.args.handled
  /\ last.args.key \in DOMAIN keyMap

(* C12: a key-press or key-release event for a key mapped to the named     *)
(* action A leaves the held state of every other named action B as it was  *)
(* (e.g. ZOOM_IN when A is PAN_RIGHT); after setKeyMap every named action  *)
(* has an entry and it is false.                                           *)
C12_HeldStatesIndependent ==
  /\ keyEventActedOn =>
       \A A, B \in DOMAIN CameraKeyInputsByName :
         (A # B /\ keyMap[last.args.key] = CameraKeyInputsByName[A]) =>
           keyDown[CameraKeyInputsByName[B]] = last.keyDown[CameraKeyInputsByName[B]]
  /\ last.op = "setKeyMap" =>
       \A A \in DOMAIN CameraKeyInputsByName :
         /\ CameraKeyInputsByName[A] \in DOMAIN keyDown
         /\ ~keyDown[CameraKeyInputsByName[A]]


\* the actions held when the on_draw that led to this state began
heldAtDraw == {function \in CameraKeyInputs : last.keyDown[function]}

(* C13: on_draw(dt) calls for every held action the Camera method of that  *)
(* action: held MOVE_FORWARD calls moveZ(-20 * dt); held ZOOM_IN or        *)
(* ZOOM_OUT calls zoom, which in ORBIT mode changes movementInput.z and    *)
(* leaves movementInput.x and .y as they were; with no action held no      *)
(* camera call is made.                                                    *)
C13_OnDrawCallsMethodOfAction ==
  last.op = "on_draw" =>
    /\ heldAtDraw = {MOVE_FORWARD} =>
         cam = moveZ(last.cam, -20 * last.args.deltaTime)
    /\ (/\ heldAtDraw # {}
        /\ heldAtDraw \subseteq {ZOOM_IN, ZOOM_OUT}
        /\ last.cam.mode = 0
        /\ last.args.deltaTime > 0)
         => /\ cam.movementInput[3] # last.cam.movementInput[3]
            /\ cam.movementInput[1] = last.cam.movementInput[1]
            /\ cam.movementInput[2] = last.cam.movementInput[2]
    /\ heldAtDraw = {} => cam = last.cam


\* the current position, orientation and target distance are those before the call
currentAsBefore ==
  /\ currentPosition(cam) = currentPosition(last.cam)
  /\ cam.currentOrientation = last.cam.currentOrientation
  /\ cam.currentTargetDistance = last.cam.currentTargetDistance

(* C14: setPosition sets desired.position, setTarget sets the desired      *)
(* orientation and desiredTargetDistance = |target - desired.position|;    *)
(* with interpolate true the current position, orientation and target      *)
(* distance are as before the call; with interpolate false the current     *)
(* value of each field the call sets equals the desired one.               *)
C14_InterpolateFlag ==
  /\ last.op = "setPosition" =>
       /\ desiredPosition(cam) = last.args.position
       /\ last.args.interpolate => currentAsBefore
       /\ ~last.args.interpolate => currentPosition(cam) = desiredPosition(cam)
  /\ last.op = "setTarget" =>
       /\ cam.desiredTargetDistance =
            Length(VSub(last.args.target, desiredPosition(last.cam)))
       /\ desiredPosition(cam) = desiredPosition(last.cam)
       /\ last.args.interpolate => currentAsBefore
       /\ ~last.args.interpolate =>
            /\ cam.currentOrientation = cam.desiredOrientation
            /\ cam.currentTargetDistance = cam.desiredTargetDistance

\* an interpolating setPosition on a camera whose two positions were one vector
C14_Witness ==
  /\ last.op = "setPosition"
  /\ last.args.interpolate
  /\ last.cam.desiredPosRef = last.cam.currentPosRef
  /\ last.args.position # currentPosition(last.cam)
  /\ desiredPosition(cam) = last.args.position
  /\ currentPosition(cam) = currentPosition(last.cam)


(* C15: setTarget with the target at the camera position (a degenerate     *)
(* lookAt) leaves the desired and the current orientation as they were,    *)
(* and the orientation stays a valid rotation.                             *)
C15_DegenerateLookAtKeepsOrientation ==
  (last.op = "setTarget" /\ last.args.target = desiredPosition(last.cam)) =>
    /\ cam.desiredOrientation = last.cam.desiredOrientation
    /\ cam.currentOrientation = last.cam.currentOrientation
    /\ cam.desiredOrientation # NaNQuat
    /\ cam.currentOrientation # NaNQuat


\* no input method was called since the update before: the update found nothing accumulated
updateWithoutInput ==
  /\ last.op = "update"
  /\ last.cam.mode \in {0, 1}
  /\ last.cam.movementInput = <<0, 0, 0>>
  /\ last.cam.rotationInput = <<0, 0>>

\* no NaN in the positions and orientations of c
validTransforms(c) ==
  /\ desiredPosition(c) # NaNVec /\ currentPosition(c) # NaNVec
  /\ c.desiredOrientation # NaNQuat /\ c.currentOrientation # NaNQuat

\* v is, in every component, at most as far from goal as w is
NotFarther(goal, v, w) == \A i \in 1..3 : Abs(goal[i] - v[i]) <= Abs(goal[i] - w[i])

(* C16: an update that found no input leaves the desired position,         *)
(* orientation and target distance as they were, does not move the current *)
(* position or target distance farther from the desired one, and leaves    *)
(* current as it was when it equalled desired (both modes).                *)
C16_NoInputUpdateIsFixedPoint ==
  (updateWithoutInput /\ validTransforms(last.cam) /\ validTransforms(cam)) =>
    /\ desiredPosition(cam) = desiredPosition(last.cam)
    /\ cam.desiredOrientation = last.cam.desiredOrientation
    /\ cam.desiredTargetDistance = last.cam.desiredTargetDistance
    /\ NotFarther(desiredPosition(last.cam), currentPosition(cam), currentPosition(last.cam))
    /\ Abs(last.cam.desiredTargetDistance - cam.currentTargetDistance)
         <= Abs(last.cam.desiredTargetDistance - last.cam.currentTargetDistance)
    /\ (/\ currentPosition(last.cam) = desiredPosition(last.cam)
        /\ last.cam.currentOrientation = last.cam.desiredOrientation
        /\ last.cam.currentTargetDistance = last.cam.desiredTargetDistance)
         => /\ currentPosition(cam) = currentPosition(last.cam)
            /\ cam.currentOrientation = last.cam.currentOrientation
            /\ cam.currentTargetDistance = last.cam.currentTargetDistance


\* the world-space pivot: current.position + current forward * currentTargetDistance
pivot(c) == VAdd(currentPosition(c), Forward(c.currentOrientation, c.currentTargetDistance))

\* current has converged to desired
converged(c) ==
  /\ currentPosition(c) = desiredPosition(c)
  /\ c.currentOrientation = c.desiredOrientation
  /\ c.currentTargetDistance = c.desiredTargetDistance

\* v and w differ by at most 100 length units (0.0125) in every component
Near(v, w) == v # NaNVec /\ w # NaNVec /\ \A i \in 1..3 : Abs(v[i] - w[i]) <= 100

(* C17: in ORBIT mode, under rotateH / rotateV inputs and updates only,    *)
(* whenever current has converged to desired the pivot is where it was     *)
(* before the rotations: at the target the camera was constructed with.    *)
C17_OrbitPivotInvariant ==
  (cam.mode = 0 /\ converged(cam)) =>
    \E target \in InitTargets : Near(pivot(cam), target)

\* a camera at rest that holds a movement input along its z axis only
zInputAtRest(c) ==
  /\ c.mode = 1
  /\ converged(c)
  /\ c.currentOrientation # NaNQuat
  /\ c.rotationInput = <<0, 0>>
  /\ c.movementInput[1] = 0 /\ c.movementInput[2] = 0
  /\ c.movementSpeedMod = movementSpeedModInit

\* the camera's local z axis scaled by m
alongLocalZ(c, m) == Rotate(c.currentOrientation, <<0, 0, m>>)

(* C18: in FLY mode moveZ(d) adds d * moveSpeed to the z input, and an     *)
(* update(1.0) of a camera at rest moves the current and the desired       *)
(* position by that input along the camera's local z axis, leaves both     *)
(* orientations as they were and clears the input, so that the updates     *)
(* after it, which find a zero input, move by nothing.                     *)
C18_FlyMoveZThenUpdate ==
  /\ (last.op = "moveZ" /\ last.cam.mode = 1) =>
       cam.movementInput =
         VAdd(last.cam.movementInput, <<0, 0, (last.args.d * last.cam.moveSpeed) \div 16>>)
  /\ (last.op = "update" /\ last.args.deltaTime = 16 /\ zInputAtRest(last.cam)) =>
       /\ currentPosition(cam) =
            VAdd(currentPosition(last.cam), alongLocalZ(last.cam, last.cam.movementInput[3]))
       /\ desiredPosition(cam) = currentPosition(cam)
       /\ cam.currentOrientation = last.cam.currentOrientation
       /\ cam.desiredOrientation = last.cam.desiredOrientation
       /\ cam.movementInput = <<0, 0, 0>>

\* moveZ(-1), update(1.0), update(1.0) from (0, 0, 5): the camera stays at z = 5 - moveSpeed
C18_Witness ==
  /\ steps = 3
  /\ last.op = "update" /\ last.args.deltaTime = 16 /\ zInputAtRest(last.cam)
  /\ last.cam.movementInput = <<0, 0, 0>>
  /\ cam.moveSpeed = moveSpeedInit
  /\ currentPosition(last.cam) = <<0, 0, 40000 - moveSpeedInit>>
  /\ currentPosition(cam) = <<0, 0, 40000 - moveSpeedInit>>
  /\ cam.currentOrientation = <<0, 0>>

\* the three speeds changeMovementSpeed scales
speeds(c) == <<c.moveSpeed, c.panSpeed, c.zoomSpeed>>

(* C19: changeMovementSpeed(change) on positive speeds strictly increases  *)
(* the three speeds when change > 0, and strictly decreases them to a      *)
(* value that is not below the floor constant when change < 0.             *)
C19_SpeedChangeMonotone ==
  (last.op = "changeMovementSpeed" /\ \A i \in 1..3 : speeds(last.cam)[i] > 0) =>
    \A i \in 1..3 :
      /\ last.args.change > 0 => speeds(cam)[i] > speeds(last.cam)[i]
      /\ last.args.change < 0 =>
           /\ speeds(cam)[i] < speeds(last.cam)[i]
           /\ speeds(cam)[i] >= FloatMin

\* the movement input of an update, expressed in the desired camera's local axes
movementInDesiredAxes(c) == Rotate(c.desiredOrientation, scaledInput(c))

\* an update whose only write to desired.position is "+= movement"
onlyMovementMovesDesired(c) ==
  /\ c.mode \in {0, 1}
  /\ c.rotationInput = <<0, 0>>
  /\ c.mode = 0 => c.desiredPosRef # c.currentPosRef
  /\ c.desiredOrientation # NaNQuat /\ OnGrid(c.desiredOrientation)
  /\ c.currentOrientation # NaNQuat

(* C20: the translation an update adds to desired.position is the movement *)
(* input, scaled by movementSpeedMod, in the local axes of the desired      *)
(* orientation, whether or not current.orientation has reached it.         *)
C20_MovementInDesiredAxes ==
  (last.op = "update" /\ onlyMovementMovesDesired(last.cam)) =>
    desiredPosition(cam) = VAdd(desiredPosition(last.cam), movementInDesiredAxes(last.cam))

\* the movement input of an update, expressed in the current camera's local axes
movementInCurrentAxes(c) == Rotate(c.currentOrientation, scaledInput(c))

(* C20, as the code has it: the translation an update adds to              *)
(* desired.position is the movement input, scaled by movementSpeedMod, in  *)
(* the local axes of the current orientation, the one the view is drawn    *)
(* with, also while it still differs from desired.orientation.             *)
C20_MovementInCurrentAxes ==
  (last.op = "update" /\ onlyMovementMovesDesired(last.cam)) =>
    desiredPosition(cam) = VAdd(desiredPosition(last.cam), movementInCurrentAxes(last.cam))

\* an update with a movement input while the two orientations differ, which moved desired.position
C20_Witness ==
  /\ last.op = "update" /\ onlyMovementMovesDesired(last.cam)
  /\ last.cam.currentOrientation # last.cam.desiredOrientation
  /\ movementInCurrentAxes(last.cam) # movementInDesiredAxes(last.cam)
  /\ desiredPosition(cam) # desiredPosition(last.cam)

\* movementSpeedMod (in 1/64) for the held state kd: 2.0, 0.5 or 1.0
speedModFor(kd) ==
  IF kd[MOVE_FAST] /\ ~kd[MOVE_SLOW] THEN 2 * movementSpeedModInit
  ELSE IF kd[MOVE_SLOW] /\ ~kd[MOVE_FAST] THEN movementSpeedModInit \div 2
  ELSE movementSpeedModInit

(* C21: in the frames of the Canvas, the movementSpeedMod the update finds *)
(* is 2.0 when only MOVE_FAST is held, 0.5 when only MOVE_SLOW is held and *)
(* 1.0 when both or neither are held, in the first frame and in every      *)
(* later one; between the frames it is 1.0.                                *)
C21_SpeedModPerFrame ==
  /\ last.op = "update" => last.cam.movementSpeedMod = speedModFor(last.keyDown)
  /\ canvas.pc \in {"idle", "on_draw"} => cam.movementSpeedMod = movementSpeedModInit

\* the second frame in a row with only MOVE_FAST held: its update finds 2.0
C21_Witness ==
  /\ last.op = "update" /\ canvas.frames = 2
  /\ last.keyDown[MOVE_FAST] /\ ~last.keyDown[MOVE_SLOW]
  /\ last.cam.movementSpeedMod = 2 * movementSpeedModInit

(* C22: in every frame of the Canvas the input handler's on_draw(dt) runs   *)
(* once and first, Camera.update runs once, directly after it and with the *)
(* same dt, program['view'] is then set from the matrix of that update,    *)
(* and no event callback runs from the start of the frame to its end.      *)
C22_FrameOrder ==
  /\ canvas.pc = "on_draw" =>
       /\ last.op = "Canvas.on_draw" /\ last.args.dt = canvas.dt
       /\ canvas.handlerDraws = canvas.frames - 1 /\ canvas.updates = canvas.frames - 1
  /\ canvas.pc = "update" =>
       /\ last.op = "on_draw" /\ last.args.deltaTime = canvas.dt
       /\ canvas.handlerDraws = canvas.frames /\ canvas.updates = canvas.frames - 1
  /\ canvas.pc = "view" =>
       /\ last.op = "update" /\ last.args.deltaTime = canvas.dt
       /\ cam = update(last.cam, canvas.dt)
       /\ canvas.handlerDraws = canvas.frames /\ canvas.updates = canvas.frames
  /\ canvas.pc = "idle" =>
       /\ canvas.handlerDraws = canvas.frames /\ canvas.updates = canvas.frames
       /\ last.op = "program.view" =>
            /\ canvas.view = viewMatrix(cam)
            /\ cam = last.cam /\ keyDown = last.keyDown /\ prevMousePos = last.prevMousePos

\* the end of a second frame, after a key event, whose update moved the camera
C22_Witness ==
  /\ canvas.pc = "idle" /\ last.op = "program.view" /\ canvas.frames = 2 /\ steps = 3
  /\ keyDown[MOVE_FORWARD]
  /\ canvas.view = viewMatrix(cam)
  /\ currentPosition(cam) # canvas.initialCamPosition

\* the blend factors of an update with this frame time lie in (0, 1]
blendFactorsInUnitRange(deltaTime) ==
  /\ 0 < PowMovement(deltaTime) /\ PowMovement(deltaTime) <= 2
  /\ 0 < PowRotation(deltaTime) /\ PowRotation(deltaTime) <= 1000

(* C23: the frame time an update of the Canvas is called with is never 0   *)
(* and never so large that a blend factor leaves (0, 1].                   *)
C23_FrameTimeClamped ==
  (last.op = "update" /\ canvas.frames > 0) =>
    /\ last.args.deltaTime > 0
    /\ blendFactorsInUnitRange(last.args.deltaTime)

(* C24, for input accumulated by panH / panV / zoom (the only movement     *)
(* input of SpecSwitch): with enableAllControls false, an update that runs *)
(* in FLY mode applies none of it as fly movement, so it leaves            *)
(* desired.position where it was.                                          *)
C24_InputIntegratedUnderItsMode ==
  (last.op = "update" /\ last.cam.mode = 1 /\ ~last.cam.enableAllControls) =>
    desiredPosition(cam) = desiredPosition(last.cam)

\* the desired world-space pivot
desiredPivot(c) ==
  VAdd(desiredPosition(c), Forward(c.desiredOrientation, c.desiredTargetDistance))

\* an ORBIT camera whose only accumulated input is zoom
onlyZoomInput(c) ==
  /\ c.mode = 0
  /\ c.rotationInput = <<0, 0>>
  /\ c.movementInput[1] = 0 /\ c.movementInput[2] = 0 /\ c.movementInput[3] # 0
  /\ c.desiredOrientation # NaNQuat /\ c.currentOrientation # NaNQuat

(* C25: in ORBIT mode an update whose only accumulated input is zoom       *)
(* leaves the desired pivot where it was; when the floor guard drops the   *)
(* zoom, desired.position and desiredTargetDistance are unchanged too.     *)
C25_ZoomKeepsDesiredPivot ==
  (last.op = "update" /\ onlyZoomInput(last.cam)) =>
    /\ desiredPivot(cam) = desiredPivot(last.cam)
    /\ ~zoomStaysAboveFloor(last.cam) =>
         /\ desiredPosition(cam) = desiredPosition(last.cam)
         /\ cam.desiredTargetDistance = last.cam.desiredTargetDistance

====
